---- MODULE Spec2Model ----
(***************************************************************************)
(* Model of the team schedule component (TeamSchedule), of the day grid it *)
(* renders (TeamDailySchedule), of the page that hosts it                  *)
(* (TeamSchedulePage, getStaticPaths) and of the search page (SearchPage,  *)
(* SearchResults).                                                         *)
(*                                                                         *)
(* Time.  A Date is an absolute instant, modelled as a whole number of     *)
(* hours counted from 00:00 UTC on the first day of a month.  The viewer's *)
(* timezone is a fixed whole-hour offset tz (no daylight-saving change     *)
(* inside one season), so local time is instant + tz.  Every month has     *)
(* DaysInMonth days.                                                       *)
(*                                                                         *)
(* Nullable values.  null/undefined is the empty tuple None, a present     *)
(* value v is the one-element tuple Some(v).                               *)
(*                                                                         *)
(* Inputs are drawn where the code first reads them: the properties the    *)
(* memo depends on when the component is mounted, each game when the       *)
(* for-loop reaches it (the loop never looks ahead, so this is the same as *)
(* drawing the whole list up front), team and teams when the component     *)
(* returns its elements (they are not dependencies of the memo).           *)
(***************************************************************************)
EXTENDS Integers, Sequences, FiniteSets, TLC

VARIABLES
  pageData,                \* TeamSchedulePage: the four SWR data values
  page,                    \* what TeamSchedulePage returned
  host,                    \* who rendered TeamSchedule: "none", "parent", "page"
  scheduleIsValidating,    \* TeamSchedule props
  schedule,
  seasonStartDates,
  selectedSeason,
  team,
  teams,
  tz,                      \* the viewer's timezone offset, in hours
  currGameDate,            \* locals of the seasonScheduleByDate memo
  prevGame,
  previousGameHasStarted,
  postseasonHasStarted,
  postseasonRound,
  gamesByDay,
  seasonScheduleByDate,    \* the memo's value
  shown,                   \* what TeamSchedule returned
  pc,
  dailyRender,             \* what rendering TeamDailySchedule gave
  search,                  \* SearchPage: route, hook state, effect, output
  staticPaths              \* the outcome of getStaticPaths

pageVars  == <<pageData, page>>
propVars  == <<scheduleIsValidating, schedule, seasonStartDates,
               selectedSeason, tz>>
loopVars  == <<currGameDate, prevGame, previousGameHasStarted,
               postseasonHasStarted, postseasonRound, gamesByDay>>
vars == <<pageData, page, host, scheduleIsValidating, schedule,
          seasonStartDates, selectedSeason, team, teams, tz, currGameDate,
          prevGame, previousGameHasStarted, postseasonHasStarted,
          postseasonRound, gamesByDay, seasonScheduleByDate, shown, pc,
          dailyRender, search, staticPaths>>
otherVars == <<search, staticPaths>>
scheduleVars == <<pageData, page, scheduleIsValidating, schedule,
                  seasonStartDates, selectedSeason, team, teams, tz,
                  currGameDate, prevGame, previousGameHasStarted,
                  postseasonHasStarted, postseasonRound, gamesByDay,
                  seasonScheduleByDate, shown, pc, dailyRender>>

----------------------------------------------------------------------------
(* Bounds and input domains *)

MaxGames == 4            \* longest game list
StartedCount == 2        \* the first StartedCount games of a list have started

Seasons == {7, 8, 10, 11, 12}
TimezoneOffsets == {-5, 0, 7}
FirstDays == {0, 26, 71, 98, 99, 101}
DaySteps == {-1, 0, 1, 2}
SeriesIndexes == {1, 2}

\* seasonStartDates.json: season -> start instant.  Day-of-month 28..31,
\* 15:00..17:00 UTC, so that runs cross local midnight and the month's end.
StartDateTable ==
  [s \in Seasons |->
     CASE s = 7  -> 24 * 30 + 16
       [] s = 8  -> 24 * 27 + 17
       [] s = 10 -> 24 * 29 + 16
       [] s = 11 -> 24 * 30 + 17
       [] OTHER  -> 24 * 28 + 15]

TheTeam == [team_id |-> "t1", url_slug |-> "one"]
TheTeams == <<TheTeam, [team_id |-> "t2", url_slug |-> "two"],
              [team_id |-> "t3", url_slug |-> "three"]>>
\* a teams list that lacks team t3
SomeTeams == <<TheTeam, [team_id |-> "t2", url_slug |-> "two"]>>

None == <<>>
Some(v) == <<v>>
IsNull(x) == x = None
Truthy(x) == x # None /\ x[1]

\* the team and teams properties TeamSchedule is rendered with
TeamProps ==
  ({None, Some(TheTeam)} \X {None, Some(TheTeams)})
    \cup {<<Some(TheTeam), Some(SomeTeams)>>}

----------------------------------------------------------------------------
(* Date *)

DaysInMonth == 31

getHours(d, off) == (d + off) % 24
getDate(d, off) == (((d + off) \div 24) % DaysInMonth) + 1
getUTCHours(d) == d % 24
\* Date.setHours(h): the local hour becomes h; h >= 24 carries into the date
setHours(d, off, h) == d - getHours(d, off) + h
\* Date.setDate(n): the local day of month becomes n; overflow carries
setDate(d, off, n) == d + 24 * (n - getDate(d, off))
\* Date.setUTCHours(h): the UTC hour becomes h, the UTC date is kept
setUTCHours(d, h) == d - getUTCHours(d) + h
\* the UTC calendar day of an instant (used by the properties only)
UTCDay(d) == d \div 24

----------------------------------------------------------------------------
(* The body of the for-loop of seasonScheduleByDate *)

\* every game counted as a new game day
isNewGameDayAlways(prev, game) == TRUE

\* prevGame?.day !== game.day
isNewGameDay(prev, game) == IsNull(prev) \/ prev[1].day # game.day

\* advanceHourBy without the siesta hour
advanceHourByNoSiesta(selSeason, game) == 1

\* advanceHourBy for a new regular-season game day
advanceHourBy(selSeason, game) ==
  IF selSeason >= 11 /\ (game.day = 27 \/ game.day = 72) THEN 1 + 1 ELSE 1

\* the first postseason game with the hour set in local time
firstPostseasonDateLocalHour(d, off, game) ==
  IF game.season < 8
    THEN setHours(setDate(d, off, getDate(d, off) + 1), off, 13)
    ELSE LET d2 == setHours(d, off, getHours(d, off) + 2)
         IN  IF game.day > 99
               THEN setHours(d2, off, getHours(d2, off) + (game.day - 99))
               ELSE d2

\* first new game day with day >= 99: the new clock
firstPostseasonDate(d, off, game) ==
  IF game.season < 8
    THEN setUTCHours(setDate(d, off, getDate(d, off) + 1), 13)
    ELSE LET d2 == setHours(d, off, getHours(d, off) + 2)
         IN  IF game.day > 99
               THEN setHours(d2, off, getHours(d2, off) + (game.day - 99))
               ELSE d2

\* the round counter without the bypassed round
firstPostseasonRoundNoBypass(round, game) == round + 1

\* first new game day with day >= 99: the new round counter
firstPostseasonRound(round, game) ==
  IF game.season >= 8 /\ game.day > 99 THEN round + 1 + 1 ELSE round + 1

\* the round counter counting every game day from season 11 on
laterPostseasonRoundEveryDay(round, game) ==
  IF game.season < 8 THEN round
  ELSE IF game.season < 11
    THEN IF round = 1 /\ game.seriesIndex = 1 THEN round + 1 ELSE round
    ELSE round + 1

\* a later new postseason game day: the new round counter
laterPostseasonRound(round, game) ==
  IF game.season < 8 THEN round
  ELSE IF game.season < 11
    THEN IF round = 1 /\ game.seriesIndex = 1 THEN round + 1 ELSE round
    ELSE IF game.seriesIndex = 1 THEN round + 1 ELSE round

\* a later new postseason game day: the new clock
laterPostseasonDate(d, off, round, game) ==
  LET nextDay == setDate(d, off, getDate(d, off) + 1)
      nextHour == setHours(d, off, getHours(d, off) + 1)
  IN  IF game.season < 8 THEN nextHour
      ELSE IF game.season < 11
        THEN IF round = 1 /\ game.seriesIndex = 1
               THEN setUTCHours(nextDay, 15)
               ELSE nextHour
        ELSE IF game.seriesIndex = 1 /\ laterPostseasonRound(round, game) = 3
               THEN IF game.season = 12
                      THEN setUTCHours(nextDay, 14)
                      ELSE setUTCHours(nextDay, 15)
               ELSE nextHour

\* the clock after the if / else-if at the head of the loop body
advanceDate(d, off, selSeason, prev, started, round, game) ==
  IF isNewGameDay(prev, game) /\ game.day > 0 /\ game.day < 99
    THEN setHours(d, off, getHours(d, off) + advanceHourBy(selSeason, game))
  ELSE IF isNewGameDay(prev, game) /\ game.day >= 99
    THEN IF started = FALSE
           THEN firstPostseasonDate(d, off, game)
           ELSE laterPostseasonDate(d, off, round, game)
  ELSE d

advanceRound(prev, started, round, game) ==
  IF isNewGameDay(prev, game) /\ game.day >= 99
    THEN IF started = FALSE
           THEN firstPostseasonRound(round, game)
           ELSE laterPostseasonRound(round, game)
    ELSE round

advanceStarted(prev, started, game) ==
  IF isNewGameDay(prev, game) /\ game.day >= 99 THEN TRUE ELSE started

\* { ...game, visibleOnSite }
withVisibility(game, prevStarted) ==
  [id |-> game.id, day |-> game.day, season |-> game.season,
   seriesIndex |-> game.seriesIndex, gameStart |-> game.gameStart,
   homeTeam |-> game.homeTeam, awayTeam |-> game.awayTeam,
   visibleOnSite |-> (prevStarted \/ game.gameStart)]

\* a find that never matches
findDayNever(byDay, dom) == 0

\* gamesByDay.find((dayGames) => dayGames.dayOfMonth === currDayOfMonth):
\* the index of the first match, 0 when there is none
findDay(byDay, dom) ==
  LET hits == {i \in 1..Len(byDay) : byDay[i].dayOfMonth = dom}
  IN  IF hits = {} THEN 0 ELSE CHOOSE i \in hits : \A j \in hits : i <= j

\* an existing hour bucket replaced instead of appended to
addToHourOverwrite(byHour, hour, g) ==
  IF hour \notin DOMAIN byHour
    THEN (hour :> <<g>>) @@ byHour
    ELSE [byHour EXCEPT ![hour] = <<g>>]

\* the hour bucket of a day after the game is added
addToHour(byHour, hour, g) ==
  IF hour \notin DOMAIN byHour
    THEN (hour :> <<g>>) @@ byHour
    ELSE [byHour EXCEPT ![hour] = Append(@, g)]

\* "Create day of month bucket if it doesn't exist, otherwise append"
addToDay(byDay, d, off, g) ==
  LET currDayOfMonth == getDate(d, off)
      currHourOfDay == getHours(d, off)
      i == findDay(byDay, currDayOfMonth)
  IN  IF i = 0
        THEN Append(byDay, [dayOfMonth |-> currDayOfMonth,
                            startingDate |-> d,
                            gamesByHourOfDay |-> (currHourOfDay :> <<g>>)])
        ELSE [byDay EXCEPT ![i].gamesByHourOfDay =
                             addToHour(@, currHourOfDay, g)]

\* one iteration: the locals after the body has run on game
LoopBody(st, off, selSeason, game) ==
  LET d == advanceDate(st.currGameDate, off, selSeason, st.prevGame,
                       st.postseasonHasStarted, st.postseasonRound, game)
      g == withVisibility(game, st.previousGameHasStarted)
  IN  [currGameDate |-> d,
       prevGame |-> Some(g),
       previousGameHasStarted |-> game.gameStart,
       postseasonHasStarted |->
         advanceStarted(st.prevGame, st.postseasonHasStarted, game),
       postseasonRound |->
         advanceRound(st.prevGame, st.postseasonHasStarted,
                      st.postseasonRound, game),
       gamesByDay |-> addToDay(st.gamesByDay, d, off, g)]

\* the locals before the loop
LoopInit(startDates, selSeason) ==
  [currGameDate |-> startDates[selSeason],
   prevGame |-> None,
   previousGameHasStarted |-> FALSE,
   postseasonHasStarted |-> FALSE,
   postseasonRound |-> 0,
   gamesByDay |-> <<>>]

RECURSIVE Scan(_, _, _, _)
Scan(st, off, selSeason, games) ==
  IF games = <<>> THEN st
  ELSE Scan(LoopBody(st, off, selSeason, Head(games)), off, selSeason,
            Tail(games))

\* the early return of the memo
MemoSkipped(validating, sched, selSeason, startDates) ==
  \/ Truthy(validating)
  \/ IsNull(sched)
  \/ IsNull(selSeason)
  \/ IsNull(startDates)

\* the memo as a function of its dependencies
SeasonScheduleByDate(validating, sched, selSeason, startDates, off) ==
  IF MemoSkipped(validating, sched, selSeason, startDates) THEN None
  ELSE Some(Scan(LoopInit(startDates[1], selSeason[1]), off, selSeason[1],
                 sched[1]).gamesByDay)

\* the guard without the team check
ShowsLoadingIgnoringTeam(validating, byDate, t, ts) ==
  Truthy(validating) \/ IsNull(byDate) \/ IsNull(ts)

\* the guard in front of <TeamDailyScheduleLoading />
ShowsLoading(validating, byDate, t, ts) ==
  Truthy(validating) \/ IsNull(byDate) \/ IsNull(t) \/ IsNull(ts)

----------------------------------------------------------------------------
(* TeamDailySchedule *)

\* teams.find((team) => team.team_id === (isHomeTeam ? game.awayTeam :
\* game.homeTeam)): the first match, None (undefined) when there is none
opposingTeam(game, t, ts) ==
  LET isHomeTeam == game.homeTeam = t.team_id
      wanted == IF isHomeTeam THEN game.awayTeam ELSE game.homeTeam
      hits == {i \in 1..Len(ts) : ts[i].team_id = wanted}
  IN  IF hits = {} THEN None
      ELSE Some(ts[CHOOSE i \in hits : \A j \in hits : i <= j])

\* Object.keys(day.gamesByHourOfDay).sort((a, b) => Number(a) - Number(b))
RECURSIVE SortedHours(_)
SortedHours(hours) ==
  IF hours = {} THEN <<>>
  ELSE LET h == CHOOSE x \in hours : \A y \in hours : x <= y
       IN  <<h>> \o SortedHours(hours \ {h})

\* the games of one hour cell, each with the opposing team found for it
GameCells(games, t, ts) ==
  [i \in 1..Len(games) |->
     [game |-> games[i].id, opposing |-> opposingTeam(games[i], t, ts)]]

RECURSIVE HourCells(_, _, _, _)
HourCells(byHour, hours, t, ts) ==
  IF hours = <<>> THEN <<>>
  ELSE GameCells(byHour[Head(hours)], t, ts)
         \o HourCells(byHour, Tail(hours), t, ts)

RECURSIVE DayCells(_, _, _)
DayCells(days, t, ts) ==
  IF days = <<>> THEN <<>>
  ELSE HourCells(Head(days).gamesByHourOfDay,
                 SortedHours(DOMAIN Head(days).gamesByHourOfDay), t, ts)
         \o DayCells(Tail(days), t, ts)

NoRender == [rendered |-> FALSE, threw |-> FALSE, cells |-> <<>>]

\* rendering TeamDailySchedule: one cell per game, in the order of the days,
\* the sorted hours and the games of an hour; reading a property of an
\* undefined opposingTeam (opposingTeam.team_main_color) throws a TypeError
TeamDailySchedule(dailySchedule, t, ts) ==
  IF IsNull(t) \/ IsNull(ts)
    THEN [rendered |-> TRUE, threw |-> TRUE, cells |-> <<>>]
  ELSE LET found == DayCells(dailySchedule, t[1], ts[1])
       IN  IF \E i \in 1..Len(found) : IsNull(found[i].opposing)
             THEN [rendered |-> TRUE, threw |-> TRUE, cells |-> <<>>]
             ELSE [rendered |-> TRUE, threw |-> FALSE,
                   cells |-> [i \in 1..Len(found) |->
                                [game |-> found[i].game,
                                 opponent |-> found[i].opposing[1].url_slug]]]

----------------------------------------------------------------------------
(* SearchPage and SearchResults *)

MaxCalls == 3            \* most calls of setSearchTerm in a run

\* router.query.searchTerm: absent, empty, or a term
Queries == {None, Some(""), Some("tacos"), Some("wings")}

\* the results object as its list of groups, in key order
ResultObjects ==
  { <<>>,
    <<[group |-> "players", items |-> <<"p1", "p2">>]>>,
    <<[group |-> "teams", items |-> <<>>]>>,
    <<[group |-> "players", items |-> <<"p1">>],
      [group |-> "teams", items |-> <<"t1">>]>> }

\* what useAlgoliaSearchResults hands to the page
HookStates ==
  [isError : BOOLEAN, isLoading : BOOLEAN, results : ResultObjects]
InitialHook == [isError |-> FALSE, isLoading |-> FALSE, results |-> <<>>]

ErrorMessage ==
  "Sorry, we're having trouble processing your search. Please refresh the page."
LoadingMessage == "Loading search results..."
NoResultsMessage == "No results found."
PromptMessage == "Please enter a search query."

RECURSIVE LinksOf(_)
LinksOf(groups) ==
  IF groups = <<>> THEN <<>>
  ELSE Head(groups).items \o LinksOf(Tail(groups))

\* SearchResults with isLoading tested before isError
SearchResultsLoadingFirst(isError, isLoading, searchResults) ==
  IF isLoading
    THEN [message |-> LoadingMessage, headings |-> <<>>, links |-> <<>>]
  ELSE IF isError
    THEN [message |-> ErrorMessage, headings |-> <<>>, links |-> <<>>]
  ELSE IF Len(searchResults) = 0
    THEN [message |-> NoResultsMessage, headings |-> <<>>, links |-> <<>>]
  ELSE [message |-> "",
        headings |-> [i \in 1..Len(searchResults) |-> searchResults[i].group],
        links |-> LinksOf(searchResults)]

\* what SearchResults returns: a message, or the headed lists of links
SearchResults(isError, isLoading, searchResults) ==
  IF isError
    THEN [message |-> ErrorMessage, headings |-> <<>>, links |-> <<>>]
  ELSE IF isLoading
    THEN [message |-> LoadingMessage, headings |-> <<>>, links |-> <<>>]
  ELSE IF Len(searchResults) = 0
    THEN [message |-> NoResultsMessage, headings |-> <<>>, links |-> <<>>]
  ELSE [message |-> "",
        headings |-> [i \in 1..Len(searchResults) |-> searchResults[i].group],
        links |-> LinksOf(searchResults)]

\* String(router.query.searchTerm)
String(v) == IF IsNull(v) THEN Some("undefined") ELSE v

\* the truthiness test with the empty string taken as a term
HasSearchTermIfPresent(query) == ~IsNull(query)

\* router.query?.searchTerm ? ... : ...
HasSearchTerm(query) == ~IsNull(query) /\ query[1] # ""

NoView == [prompt |-> "", results |-> None]

\* the children of <Layout> in SearchPage
SearchPageView(query, hook) ==
  IF HasSearchTerm(query)
    THEN [prompt |-> "",
          results |-> Some(SearchResults(hook.isError, hook.isLoading,
                                         hook.results))]
    ELSE [prompt |-> PromptMessage, results |-> None]

\* the dependencies of the effect: React schedules it after the first
\* render and after a render whose searchTerm differs from the one the
\* effect last ran with (setSearchTerm keeps its identity)
EffectScheduled(depTerm, query) == depTerm # String(query)

\* the body of the effect, run with the searchTerm of the render that
\* scheduled it
SearchEffect(calls, searchTerm) ==
  IF ~IsNull(searchTerm) THEN Append(calls, searchTerm[1]) ELSE calls

\* SearchPage renders: it returns its elements and React schedules the
\* effect, which runs later
RenderSearchPage(query, hook) ==
  search' = [query |-> query, hook |-> hook, depTerm |-> search.depTerm,
             calls |-> search.calls, view |-> SearchPageView(query, hook),
             pending |-> EffectScheduled(search.depTerm, query)]

----------------------------------------------------------------------------
(* getStaticPaths of the team schedule page *)

\* the results of dbApiFetcher("/teams"): a failure, or a list of teams
TeamsFetches == {None, Some(<<>>), Some(<<TheTeam>>), Some(TheTeams)}

NoOutcome == [logged |-> FALSE, threw |-> FALSE, returned |-> None]

\* teams.map((team) => `/teams/${team.url_slug}/schedule`)
SchedulePaths(ts) ==
  [i \in 1..Len(ts) |-> <<"teams", ts[i].url_slug, "schedule">>]

\* getStaticPaths: teams stays undefined when the fetch fails, and
\* teams.map then throws a TypeError
getStaticPaths(fetched) ==
  IF IsNull(fetched)
    THEN [logged |-> TRUE, threw |-> TRUE, returned |-> None]
    ELSE [logged |-> FALSE, threw |-> FALSE,
          returned |-> Some([paths |-> SchedulePaths(fetched[1]),
                             fallback |-> FALSE])]

----------------------------------------------------------------------------
(* State machine *)

Locals ==
  [currGameDate |-> currGameDate, prevGame |-> prevGame,
   previousGameHasStarted |-> previousGameHasStarted,
   postseasonHasStarted |-> postseasonHasStarted,
   postseasonRound |-> postseasonRound, gamesByDay |-> gamesByDay]

SetLocals(st) ==
  /\ currGameDate' = st.currGameDate
  /\ prevGame' = st.prevGame
  /\ previousGameHasStarted' = st.previousGameHasStarted
  /\ postseasonHasStarted' = st.postseasonHasStarted
  /\ postseasonRound' = st.postseasonRound
  /\ gamesByDay' = st.gamesByDay

NoLocals ==
  [currGameDate |-> 0, prevGame |-> None, previousGameHasStarted |-> FALSE,
   postseasonHasStarted |-> FALSE, postseasonRound |-> 0, gamesByDay |-> <<>>]

Init ==
  /\ pageData = [schedule |-> None, seasonStartDates |-> None,
                 team |-> None, teams |-> None]
  /\ page = "none"
  /\ host = "none"
  /\ scheduleIsValidating = None
  /\ schedule = None
  /\ seasonStartDates = None
  /\ selectedSeason = None
  /\ team = None
  /\ teams = None
  /\ tz = 0
  /\ currGameDate = 0
  /\ prevGame = None
  /\ previousGameHasStarted = FALSE
  /\ postseasonHasStarted = FALSE
  /\ postseasonRound = 0
  /\ gamesByDay = <<>>
  /\ seasonScheduleByDate = None
  /\ shown = "nothing"
  /\ pc = "idle"
  /\ dailyRender = NoRender
  /\ search = [query |-> None, hook |-> InitialHook, depTerm |-> None,
               calls |-> <<>>, view |-> NoView, pending |-> FALSE]
  /\ staticPaths = [called |-> FALSE, fetched |-> None,
                    outcome |-> NoOutcome]

\* TeamSchedule starts to render: the memo's guard and the loop's set-up
StartMemo(validating, sched, selSeason, startDates, off) ==
  /\ scheduleIsValidating' = validating
  /\ schedule' = sched
  /\ selectedSeason' = selSeason
  /\ seasonStartDates' = startDates
  /\ tz' = off
  /\ seasonScheduleByDate' = None
  /\ shown' = "nothing"
  /\ dailyRender' = NoRender
  /\ IF MemoSkipped(validating, sched, selSeason, startDates)
       THEN /\ SetLocals(NoLocals)
            /\ pc' = "return"
       ELSE /\ SetLocals(LoopInit(startDates[1], selSeason[1]))
            /\ pc' = "scan"

\* a parent component renders <TeamSchedule ... /> with any properties
MountTeamSchedule ==
  /\ pc = "idle"
  /\ host = "none"
  /\ host' = "parent"
  /\ \E validating \in {Some(TRUE), Some(FALSE)},
        sched \in {None, Some(<<>>)},
        selSeason \in {None} \cup {Some(s) : s \in Seasons},
        startDates \in {None, Some(StartDateTable)},
        off \in TimezoneOffsets :
       StartMemo(validating, sched, selSeason, startDates, off)
  /\ UNCHANGED <<pageData, page, team, teams, otherVars>>

\* the games the list may continue with
NextGames(sched, selSeason) ==
  LET n == Len(sched)
      days == IF n = 0 THEN FirstDays
              ELSE {d \in {sched[n].day + k : k \in DaySteps} : d >= 0}
      series(d) == IF d >= 99 THEN SeriesIndexes ELSE {1 + (d % 3)}
      \* the team is at home against t2 in the odd games of the list and
      \* away at t3 in the even ones
      home == IF n % 2 = 0 THEN "t1" ELSE "t3"
      away == IF n % 2 = 0 THEN "t2" ELSE "t1"
  IN  UNION {{[id |-> n + 1, day |-> d, season |-> selSeason,
               seriesIndex |-> si, gameStart |-> (n < StartedCount),
               homeTeam |-> home, awayTeam |-> away] :
                si \in series(d)} : d \in days}

\* one iteration of  for (const { data: game } of schedule)
ScanGame ==
  /\ pc = "scan"
  /\ Len(schedule[1]) < MaxGames
  /\ \E game \in NextGames(schedule[1], selectedSeason[1]) :
       /\ schedule' = Some(Append(schedule[1], game))
       /\ SetLocals(LoopBody(Locals, tz, selectedSeason[1], game))
  /\ UNCHANGED <<pageVars, host, scheduleIsValidating, seasonStartDates,
                 selectedSeason, team, teams, tz, seasonScheduleByDate,
                 shown, pc, dailyRender, otherVars>>

\* the list is exhausted: return gamesByDay
ScanDone ==
  /\ pc = "scan"
  /\ seasonScheduleByDate' = Some(gamesByDay)
  /\ pc' = "return"
  /\ UNCHANGED <<pageVars, host, propVars, team, teams, loopVars, shown,
                 dailyRender, otherVars>>

\* the return statement of TeamSchedule
Return(t, ts) ==
  /\ team' = t
  /\ teams' = ts
  /\ shown' = IF ShowsLoading(scheduleIsValidating, seasonScheduleByDate,
                              t, ts)
                THEN "TeamDailyScheduleLoading"
                ELSE "TeamDailySchedule"
  /\ dailyRender' = IF ShowsLoading(scheduleIsValidating,
                                    seasonScheduleByDate, t, ts)
                      THEN NoRender
                      ELSE TeamDailySchedule(seasonScheduleByDate[1], t, ts)
  /\ pc' = "done"

\* TeamSchedule returns under a parent; a later render with other team /
\* teams reuses the memo
ReturnTeamSchedule ==
  /\ pc \in {"return", "done"}
  /\ host = "parent"
  /\ \E p \in TeamProps : Return(p[1], p[2])
  /\ UNCHANGED <<pageVars, host, propVars, loopVars, seasonScheduleByDate,
                 otherVars>>

\* a useSWR fetch of TeamSchedulePage resolves (or its initialData is there)
FetchResolve ==
  /\ pc \in {"idle", "done"}
  /\ host \in {"none", "page"}
  /\ \E k \in {"schedule", "seasonStartDates", "team", "teams"} :
       /\ IsNull(pageData[k])
       /\ pageData' =
            [pageData EXCEPT ![k] =
               CASE k = "schedule" -> Some(<<>>)
                 [] k = "seasonStartDates" -> Some(StartDateTable)
                 [] k = "team" -> Some(TheTeam)
                 [] OTHER -> Some(TheTeams)]
  /\ host' = "page"
  /\ UNCHANGED <<page, propVars, team, teams, loopVars,
                 seasonScheduleByDate, shown, pc, dailyRender, otherVars>>

\* router.isFallback: getStaticPaths sets fallback: false
isFallback == FALSE

\* TeamSchedulePage renders: the 404 page, or TeamSchedule with the four
\* properties it passes (scheduleIsValidating and selectedSeason are not passed)
TeamSchedulePage ==
  /\ pc \in {"idle", "done"}
  /\ host \in {"none", "page"}
  /\ host' = "page"
  /\ IF ~isFallback /\ IsNull(pageData.team)
       THEN /\ page' = "ErrorPage"
            /\ shown' = "nothing"
            /\ dailyRender' = NoRender
            /\ pc' = "done"
            /\ UNCHANGED <<propVars, team, teams, loopVars,
                           seasonScheduleByDate>>
       ELSE /\ page' = "TeamSchedule"
            /\ StartMemo(None, pageData.schedule, None,
                         pageData.seasonStartDates, tz)
            /\ UNCHANGED <<team, teams>>
  /\ UNCHANGED <<pageData, otherVars>>

\* TeamSchedule returns under TeamSchedulePage
ReturnToPage ==
  /\ pc = "return"
  /\ host = "page"
  /\ Return(pageData.team, pageData.teams)
  /\ UNCHANGED <<pageVars, host, propVars, loopVars, seasonScheduleByDate,
                 otherVars>>

\* the /search route is opened
MountSearchPage ==
  /\ pc = "idle"
  /\ host = "none"
  /\ host' = "search"
  /\ \E q \in Queries, h \in HookStates : RenderSearchPage(q, h)
  /\ UNCHANGED <<scheduleVars, staticPaths>>

\* the route's query changes and SearchPage renders again; React runs a
\* pending effect before it renders the component again
RouteChange ==
  /\ host = "search"
  /\ ~search.pending
  /\ Len(search.calls) < MaxCalls
  /\ \E q \in Queries \ {search.query} : RenderSearchPage(q, search.hook)
  /\ UNCHANGED <<scheduleVars, host, staticPaths>>

\* the search hook's state changes and SearchPage renders again
HookUpdate ==
  /\ host = "search"
  /\ ~search.pending
  /\ \E h \in HookStates \ {search.hook} : RenderSearchPage(search.query, h)
  /\ UNCHANGED <<scheduleVars, host, staticPaths>>

\* React runs the effect the last render scheduled, after the commit
RunSearchEffect ==
  /\ host = "search"
  /\ search.pending
  /\ search' = [search EXCEPT
                  !.depTerm = String(search.query),
                  !.calls = SearchEffect(search.calls, String(search.query)),
                  !.pending = FALSE]
  /\ UNCHANGED <<scheduleVars, host, staticPaths>>

\* the build calls getStaticPaths
GetStaticPaths ==
  /\ pc = "idle"
  /\ host = "none"
  /\ host' = "build"
  /\ \E fetched \in TeamsFetches :
       staticPaths' = [called |-> TRUE, fetched |-> fetched,
                       outcome |-> getStaticPaths(fetched)]
  /\ UNCHANGED <<scheduleVars, search>>

Next ==
  \/ MountSearchPage
  \/ RouteChange
  \/ HookUpdate
  \/ RunSearchEffect
  \/ GetStaticPaths
  \/ MountTeamSchedule
  \/ ScanGame
  \/ ScanDone
  \/ ReturnTeamSchedule
  \/ FetchResolve
  \/ TeamSchedulePage
  \/ ReturnToPage

Spec == Init /\ [][Next]_vars

----------------------------------------------------------------------------
(* Vocabulary of the properties.  It is written from the input list and the *)
(* variables, not from the operators of the loop body.                      *)

\* the memo went past its early return
MemoRan ==
  /\ host = "parent"
  /\ pc \in {"scan", "return", "done"}
  /\ ~Truthy(scheduleIsValidating)
  /\ ~IsNull(schedule)
  /\ ~IsNull(selectedSeason)
  /\ ~IsNull(seasonStartDates)

Games == schedule[1]
LastGame == Games[Len(Games)]
SeasonStart == seasonStartDates[1][selectedSeason[1]]

\* a step that runs the loop body on one more game, and that game
ScanStep == pc = "scan" /\ pc' = "scan" /\ schedule' # schedule
NewGame == schedule'[1][Len(schedule'[1])]
StartsNewDay == Len(Games) = 0 \/ LastGame.day # NewGame.day

OrderedByDay(list) ==
  \A i \in 1..(Len(list) - 1) : list[i].day <= list[i + 1].day
HasPostseasonGame(list) == \E i \in 1..Len(list) : list[i].day >= 99
DaysOf(list) == {list[i].day : i \in 1..Len(list)}
SiestaDays == {27, 72}
SiestaHours(selSeason, days) ==
  IF selSeason >= 11 THEN Cardinality(days \cap SiestaDays) ELSE 0

\* the places <<day bucket, hour, position>> of a bucketing, and the game there
Slots(byDay) ==
  UNION {UNION {{<<i, h, k>> :
                   k \in 1..Len(byDay[i].gamesByHourOfDay[h])} :
                h \in DOMAIN byDay[i].gamesByHourOfDay} :
         i \in 1..Len(byDay)}
GameAt(byDay, s) == byDay[s[1]].gamesByHourOfDay[s[2]][s[3]]

\* game id sits in the day and hour bucket of instant d
PlacedAt(byDay, id, d) ==
  \E s \in Slots(byDay) :
    /\ GameAt(byDay, s).id = id
    /\ byDay[s[1]].dayOfMonth = getDate(d, tz)
    /\ s[2] = getHours(d, tz)

\* the new postseason game days of a list, and the rounds begun by them:
\* the first one begins round 1 (round 2 if it is later than day 99), each
\* later one with seriesIndex 1 begins the next round
PostseasonDays(list) ==
  {i \in 1..Len(list) :
     list[i].day >= 99 /\ (i = 1 \/ list[i - 1].day # list[i].day)}
RoundsBegun(list) ==
  LET ps == PostseasonDays(list)
      first == CHOOSE i \in ps : \A j \in ps : i <= j
  IN  IF ps = {} THEN 0
      ELSE 1 + (IF list[first].day > 99 THEN 1 ELSE 0)
             + Cardinality({i \in ps : i > first /\ list[i].seriesIndex = 1})

\* the clock moves to the next calendar day instead of the next hour
NextDayJump ==
  /\ UTCDay(currGameDate') = UTCDay(currGameDate) + 1
  /\ currGameDate' - currGameDate > 1

\* the model's step-by-step locals are the fold of the loop body over the list
LocalsAreTheScan ==
  MemoRan => Locals = Scan(LoopInit(seasonStartDates[1], selectedSeason[1]),
                           tz, selectedSeason[1], Games)

----------------------------------------------------------------------------
(* C1 *)

TeamScheduleReturned == pc = "done" /\ page # "ErrorPage"
MissingMemoInput ==
  \/ Truthy(scheduleIsValidating)
  \/ IsNull(schedule)
  \/ IsNull(selectedSeason)
  \/ IsNull(seasonStartDates)
MissingInput == MissingMemoInput \/ IsNull(team) \/ IsNull(teams)
BuiltDayBuckets ==
  ~IsNull(seasonScheduleByDate) /\ Len(seasonScheduleByDate[1]) > 0

\* C1 as stated: whenever any input is missing (scheduleIsValidating true, or
\* schedule, selectedSeason, seasonStartDates, team or teams null), the
\* loading placeholder is shown and no day buckets are built.
C1_LoadingAndNoBucketsWhenAnyMissing ==
  (TeamScheduleReturned /\ MissingInput) =>
    (shown = "TeamDailyScheduleLoading" /\ ~BuiltDayBuckets)

\* C1 amended: whenever any input is missing the loading placeholder is shown
\* and TeamDailySchedule is not; the memo yields nothing when its own inputs
\* (scheduleIsValidating, schedule, selectedSeason, seasonStartDates) are
\* missing, and yields the bucketing of the list otherwise, also when team or
\* teams is missing.
C1_LoadingWhenAnyMissing ==
  TeamScheduleReturned =>
    /\ MissingInput => shown = "TeamDailyScheduleLoading"
    /\ ~MissingInput => shown = "TeamDailySchedule"
    /\ MissingMemoInput => IsNull(seasonScheduleByDate)
    /\ ~MissingMemoInput => seasonScheduleByDate = Some(gamesByDay)

C1_Witness ==
  /\ TeamScheduleReturned
  /\ ~MissingMemoInput
  /\ IsNull(team)
  /\ ~IsNull(teams)
  /\ BuiltDayBuckets
  /\ shown = "TeamDailyScheduleLoading"

----------------------------------------------------------------------------
(* C2 *)

\* C2: once TeamSchedulePage holds a non-null schedule, seasonStartDates, team
\* and teams and has rendered TeamSchedule with them, TeamSchedule has left
\* the loading placeholder and displays the day buckets.
C2_PageDisplaysSchedule ==
  ( /\ host = "page"
    /\ pc = "done"
    /\ page = "TeamSchedule"
    /\ \A k \in DOMAIN pageData : ~IsNull(pageData[k])
    /\ schedule = pageData.schedule
    /\ seasonStartDates = pageData.seasonStartDates
    /\ team = pageData.team
    /\ teams = pageData.teams )
  => shown = "TeamDailySchedule"

----------------------------------------------------------------------------
(* C3 *)

\* C3: the bucketing is a partition of the input list: every game of the list
\* sits in exactly one place of gamesByDay, there are as many places as games,
\* the game stored is the input game, and inside an hour bucket the games are
\* in the order of the list.
C3_BucketingIsPartition ==
  MemoRan =>
    LET places == Slots(gamesByDay)
    IN  /\ \A n \in 1..Len(Games) :
             Cardinality({s \in places :
                            GameAt(gamesByDay, s).id = Games[n].id}) = 1
        /\ Cardinality(places) = Len(Games)
        /\ \A s \in places :
             LET g == GameAt(gamesByDay, s)
             IN  /\ g.id \in 1..Len(Games)
                 /\ g.day = Games[g.id].day
                 /\ g.seriesIndex = Games[g.id].seriesIndex
        /\ \A s, t \in places :
             (s[1] = t[1] /\ s[2] = t[2] /\ s[3] < t[3]) =>
               GameAt(gamesByDay, s).id < GameAt(gamesByDay, t).id

C3_Witness ==
  /\ MemoRan
  /\ pc = "done"
  /\ Len(Games) = MaxGames
  /\ Len(gamesByDay) >= 2
  /\ \E s \in Slots(gamesByDay) : s[3] = 2

----------------------------------------------------------------------------
(* C4 *)

\* C4: a game that starts a new game day with 0 < day < 99 advances the clock
\* by exactly 1 hour, by exactly 2 hours when selectedSeason >= 11 and the day
\* is 27 or 72; a game on day 0 does not advance the clock and, the list being
\* ordered by day, is placed at the recorded season start date.
C4_RegularSeasonAdvance ==
  [][ScanStep =>
       /\ (StartsNewDay /\ NewGame.day > 0 /\ NewGame.day < 99) =>
            currGameDate' = currGameDate +
              (IF selectedSeason[1] >= 11 /\ NewGame.day \in SiestaDays
                 THEN 2 ELSE 1)
       /\ NewGame.day = 0 =>
            /\ currGameDate' = currGameDate
            /\ OrderedByDay(schedule'[1]) =>
                 /\ currGameDate' = SeasonStart
                 /\ PlacedAt(gamesByDay', NewGame.id, SeasonStart)]_vars

C4_Witness ==
  /\ MemoRan
  /\ selectedSeason[1] >= 11
  /\ Len(Games) = 2
  /\ Games[1].day = 26
  /\ Games[2].day = 27
  /\ currGameDate = SeasonStart + 3

----------------------------------------------------------------------------
(* C5 *)

\* C5 as stated: for a list ordered by day, a regular-season game with day d
\* is placed at season start + d hours, plus one hour for each siesta day
\* <= d when selectedSeason >= 11, whatever game days the list contains.
C5_PlacedAtStartPlusDay ==
  (MemoRan /\ Len(Games) > 0 /\ OrderedByDay(Games) /\ LastGame.day < 99) =>
    LET d == LastGame.day
        at == SeasonStart + d
                + SiestaHours(selectedSeason[1], {x \in SiestaDays : x <= d})
    IN  currGameDate = at /\ PlacedAt(gamesByDay, LastGame.id, at)

\* C5 amended: for a list ordered by day, a regular-season game with day d is
\* placed at season start + k hours, k the number of distinct game days in
\* 1..d the list contains, plus one hour for each siesta day the list
\* contains when selectedSeason >= 11; that is season start + d hours (plus
\* the siesta hours) when the list contains every game day from 1 to d.
C5_PlacedAtStartPlusDaysPlayed ==
  (MemoRan /\ Len(Games) > 0 /\ OrderedByDay(Games) /\ LastGame.day < 99) =>
    LET d == LastGame.day
        played == DaysOf(Games) \cap (1..98)
        at == SeasonStart + Cardinality(played)
                + SiestaHours(selectedSeason[1], played)
    IN  /\ currGameDate = at
        /\ PlacedAt(gamesByDay, LastGame.id, at)
        /\ (1..d) \subseteq played =>
             at = SeasonStart + d
                    + SiestaHours(selectedSeason[1],
                                  {x \in SiestaDays : x <= d})

C5_Witness ==
  /\ MemoRan
  /\ selectedSeason[1] >= 11
  /\ Len(Games) = 4
  /\ Games[1].day = 26
  /\ Games[2].day = 27
  /\ Games[3].day = 27
  /\ Games[4].day = 28
  /\ currGameDate = SeasonStart + 4

----------------------------------------------------------------------------
(* C6 *)

\* C6: a game whose day equals the previous game's day does not move the
\* clock and is appended to the day bucket and hour bucket of the previous
\* game, right after it.
C6_SameDayTogether ==
  [][(ScanStep /\ Len(Games) > 0 /\ LastGame.day = NewGame.day) =>
       /\ currGameDate' = currGameDate
       /\ Len(gamesByDay') = Len(gamesByDay)
       /\ \E s \in Slots(gamesByDay) :
            /\ GameAt(gamesByDay, s).id = LastGame.id
            /\ <<s[1], s[2], s[3] + 1>> \in Slots(gamesByDay')
            /\ GameAt(gamesByDay', <<s[1], s[2], s[3] + 1>>).id = NewGame.id
            /\ GameAt(gamesByDay', s).id = LastGame.id
            /\ gamesByDay'[s[1]].dayOfMonth = gamesByDay[s[1]].dayOfMonth
            /\ Len(gamesByDay'[s[1]].gamesByHourOfDay[s[2]]) = s[3] + 1]_vars

C6_Witness ==
  /\ MemoRan
  /\ Len(Games) >= 3
  /\ Games[2].day # Games[1].day
  /\ Games[3].day = Games[2].day
  /\ \E s \in Slots(gamesByDay) :
       /\ s[3] = 2
       /\ GameAt(gamesByDay, s).id = 3
       /\ GameAt(gamesByDay, <<s[1], s[2], 1>>).id = 2

----------------------------------------------------------------------------
(* C7 *)

\* C7: with game.season < 8 the first postseason game (the first new game day
\* with day >= 99) is placed at UTC hour 13 of the UTC calendar day following
\* the day the clock stood at, for every viewer timezone offset; every later
\* new postseason game day advances the clock by exactly 1 hour.
C7_EarlyPostseason ==
  [][(ScanStep /\ NewGame.season < 8 /\ StartsNewDay /\ NewGame.day >= 99) =>
       IF ~HasPostseasonGame(Games)
         THEN /\ getUTCHours(currGameDate') = 13
              /\ UTCDay(currGameDate') = UTCDay(currGameDate) + 1
         ELSE currGameDate' = currGameDate + 1]_vars

C7_Witness ==
  /\ MemoRan
  /\ tz # 0
  /\ Len(Games) = 3
  /\ Games[1].season < 8
  /\ Games[1].day = 98
  /\ Games[2].day = 99
  /\ Games[3].day = 100
  /\ currGameDate = 24 * (UTCDay(SeasonStart + 1) + 1) + 14

----------------------------------------------------------------------------
(* C8 *)

\* C8: with game.season >= 8 the first postseason game is placed exactly 2
\* hours after the clock of the last regular-season game day when its day is
\* 99, and 2 + (day - 99) hours after it when its day is greater than 99; the
\* round counter is 1 after the former and 2 after the latter.
C8_FirstPostseasonGame ==
  [][(ScanStep /\ NewGame.season >= 8 /\ StartsNewDay /\ NewGame.day >= 99
        /\ ~HasPostseasonGame(Games)) =>
       IF NewGame.day = 99
         THEN /\ currGameDate' = currGameDate + 2
              /\ postseasonRound' = 1
         ELSE /\ currGameDate' = currGameDate + 2 + (NewGame.day - 99)
              /\ postseasonRound' = 2]_vars

C8_Witness ==
  /\ MemoRan
  /\ Len(Games) = 2
  /\ Games[1].season >= 8
  /\ Games[1].day = 98
  /\ Games[2].day = 100
  /\ postseasonRound = 2
  /\ postseasonHasStarted
  /\ currGameDate = SeasonStart + 1 + 3

----------------------------------------------------------------------------
(* C9 *)

IsRegularSeasonGame(g) == g.day < 99

\* the clock of the last regular-season game day of the list
RegularSeasonEnd ==
  Scan(LoopInit(seasonStartDates[1], selectedSeason[1]), tz,
       selectedSeason[1], SelectSeq(Games, IsRegularSeasonGame)).currGameDate

\* C9: with 8 <= game.season < 11, every postseason game of round 2 or later
\* is placed on or after UTC hour 15 of the calendar day after the day the
\* regular season ended, whether the team's first postseason game was on day
\* 99 or later.
C9_RoundTwoOnNextDay ==
  ( /\ MemoRan
    /\ Len(Games) > 1
    /\ LastGame.season >= 8
    /\ LastGame.season < 11
    /\ OrderedByDay(Games)
    /\ Games[1].day < 99
    /\ LastGame.day >= 99
    /\ RoundsBegun(Games) >= 2 )
  => currGameDate >= 24 * (UTCDay(RegularSeasonEnd) + 1) + 15

----------------------------------------------------------------------------
(* C10 *)

\* C10 as stated: with game.season >= 11 the next-day jump happens exactly at
\* the first game (seriesIndex 1) of the third round, a bypassed first round
\* counting as a round; every other new postseason game day advances the
\* clock by exactly 1 hour.
C10_JumpAtThirdRoundElseOneHour ==
  [][(ScanStep /\ NewGame.season >= 11 /\ StartsNewDay
        /\ NewGame.day >= 99) =>
       IF NewGame.seriesIndex = 1 /\ RoundsBegun(schedule'[1]) = 3
         THEN NextDayJump
         ELSE currGameDate' = currGameDate + 1]_vars

\* C10 amended: with game.season >= 11 the team's first postseason game is
\* placed 2 hours (2 + (day - 99) hours when the first round was bypassed)
\* after the clock of the regular season, with no next-day jump; of the later
\* new postseason game days, exactly the first game (seriesIndex 1) of the
\* third round jumps to the next calendar day and every other one advances
\* the clock by exactly 1 hour.
C10_JumpAtThirdRound ==
  [][(ScanStep /\ NewGame.season >= 11 /\ StartsNewDay
        /\ NewGame.day >= 99) =>
       IF ~HasPostseasonGame(Games)
         THEN /\ currGameDate' = currGameDate + 2
                   + (IF NewGame.day > 99 THEN NewGame.day - 99 ELSE 0)
              /\ RoundsBegun(schedule'[1]) < 3
         ELSE IF NewGame.seriesIndex = 1 /\ RoundsBegun(schedule'[1]) = 3
           THEN NextDayJump
           ELSE currGameDate' = currGameDate + 1]_vars

C10_Witness ==
  /\ MemoRan
  /\ Len(Games) = 4
  /\ Games[1].season >= 11
  /\ Games[1].day = 99
  /\ Games[2].day = 100 /\ Games[2].seriesIndex = 2
  /\ Games[3].day = 101 /\ Games[3].seriesIndex = 1
  /\ Games[4].day = 102 /\ Games[4].seriesIndex = 1
  /\ RoundsBegun(Games) = 3
  /\ postseasonRound = 3
  /\ UTCDay(currGameDate) = UTCDay(SeasonStart + 4) + 1
  /\ currGameDate > SeasonStart + 5

----------------------------------------------------------------------------
(* C11 *)

\* C11: with game.season >= 11 the first game of the third round, the one
\* that jumps to the next calendar day, is placed at UTC hour 13, and one
\* hour earlier when game.season = 12.
C11_ThirdRoundAtThirteen ==
  [][(ScanStep /\ NewGame.season >= 11 /\ StartsNewDay /\ NewGame.day >= 99
        /\ HasPostseasonGame(Games)
        /\ NewGame.seriesIndex = 1 /\ RoundsBegun(schedule'[1]) = 3) =>
       getUTCHours(currGameDate') =
         (IF NewGame.season = 12 THEN 13 - 1 ELSE 13)]_vars

----------------------------------------------------------------------------
(* C12 *)

SearchResultsRendered == host = "search" /\ ~IsNull(search.view.results)

\* C12: SearchResults shows only the error message when isError is true,
\* whatever isLoading and the results are; otherwise only the loading message
\* when isLoading is true; otherwise "No results found." exactly when the
\* results object has no group, and one headed list per group when it has
\* one.  No result link is shown while isError or isLoading is true.
C12_SearchResultsPrecedence ==
  SearchResultsRendered =>
    LET out == search.view.results[1]
        h == search.hook
    IN  /\ h.isError =>
             out.message = ErrorMessage /\ out.headings = <<>>
        /\ (~h.isError /\ h.isLoading) =>
             out.message = LoadingMessage /\ out.headings = <<>>
        /\ (~h.isError /\ ~h.isLoading) =>
             /\ out.message = NoResultsMessage <=> Len(h.results) = 0
             /\ Len(h.results) > 0 =>
                  /\ out.message = ""
                  /\ Len(out.headings) = Len(h.results)
                  /\ \A i \in 1..Len(h.results) :
                       out.headings[i] = h.results[i].group
                  /\ out.links = LinksOf(h.results)
        /\ (h.isError \/ h.isLoading) => out.links = <<>>

C12_Witness ==
  /\ SearchResultsRendered
  /\ search.hook.isError
  /\ search.hook.isLoading
  /\ Len(search.hook.results) = 2
  /\ search.view.results[1].message = ErrorMessage

----------------------------------------------------------------------------
(* C13 *)

\* C13: with no searchTerm query parameter, or an empty one, SearchPage shows
\* "Please enter a search query." and does not render SearchResults, whatever
\* the hook's state; with a non-empty searchTerm it renders SearchResults
\* with the hook's isError, isLoading and results.
C13_PromptWithoutSearchTerm ==
  host = "search" =>
    IF IsNull(search.query) \/ search.query = Some("")
      THEN /\ search.view.prompt = PromptMessage
           /\ IsNull(search.view.results)
      ELSE /\ search.view.prompt = ""
           /\ search.view.results =
                Some(SearchResults(search.hook.isError, search.hook.isLoading,
                                   search.hook.results))

C13_Witness ==
  /\ host = "search"
  /\ search.query = Some("")
  /\ search.hook.isError
  /\ Len(search.hook.results) > 0
  /\ search.view.prompt = PromptMessage
  /\ IsNull(search.view.results)

----------------------------------------------------------------------------
(* C14 *)

\* C14: when the /teams fetch fails, getStaticPaths logs the error and
\* returns an empty paths list with fallback false instead of throwing; when
\* the fetch succeeds it returns exactly one path /teams/<url_slug>/schedule
\* per fetched team.
C14_StaticPathsDegradeSafely ==
  staticPaths.called =>
    LET out == staticPaths.outcome
    IN  /\ ~out.threw
        /\ ~IsNull(out.returned)
        /\ out.returned[1].fallback = FALSE
        /\ IF IsNull(staticPaths.fetched)
             THEN out.logged /\ out.returned[1].paths = <<>>
             ELSE LET ts == staticPaths.fetched[1]
                  IN  /\ Len(out.returned[1].paths) = Len(ts)
                      /\ \A i \in 1..Len(ts) :
                           out.returned[1].paths[i] =
                             <<"teams", ts[i].url_slug, "schedule">>

----------------------------------------------------------------------------
(* C16 *)

\* C16: SearchPage calls setSearchTerm only when the route carries a
\* searchTerm query parameter, and then with exactly that parameter's value;
\* when the parameter is absent no term is submitted.
C16_SubmitsOnlyRouteTerm ==
  [][search'.calls # search.calls =>
       /\ ~IsNull(search'.query)
       /\ Len(search'.calls) = Len(search.calls) + 1
       /\ search'.calls[Len(search'.calls)] = search'.query[1]]_vars

----------------------------------------------------------------------------
(* C15 *)

\* C15: rendering the day buckets never fails on incomplete team data:
\* whenever TeamSchedule returns TeamDailySchedule, the render does not throw
\* and every game of every bucket gets its cell, also when the opposing team
\* id matches no entry of teams.
C15_RenderSurvivesMissingTeam ==
  (TeamScheduleReturned /\ shown = "TeamDailySchedule") =>
    /\ dailyRender.rendered
    /\ ~dailyRender.threw
    /\ Len(dailyRender.cells) = Cardinality(Slots(seasonScheduleByDate[1]))
    /\ \A s \in Slots(seasonScheduleByDate[1]) :
         \E i \in 1..Len(dailyRender.cells) :
           dailyRender.cells[i].game = GameAt(seasonScheduleByDate[1], s).id

====
